---------------------------- MODULE Spec2Model ----------------------------
(***************************************************************************)
(* A model of the BSON codec of ext/cbson/cbson.c: the serializer          *)
(* (method_serialize, write_doc, write_element_allow_id), the deserializer *)
(* (method_deserialize, elements_to_hash, get_value) and the byte buffer   *)
(* they write through.                                                     *)
(*                                                                         *)
(* Bytes are the integers 0..255.  A byte sequence may also hold a         *)
(* negative item -n, which stands for a run of n bytes 'a' (0x61): it lets *)
(* a string of several megabytes be written down.  Uninit marks a byte     *)
(* that was reserved in the buffer and never written.                      *)
(*                                                                         *)
(* Ruby integers (Fixnum and Bignum) are sign and magnitude, the magnitude *)
(* a little-endian sequence of base-256 digits without leading zeros, so   *)
(* that the values around 2^31 and 2^63 can be written down.               *)
(***************************************************************************)
EXTENDS Integers, Sequences, FiniteSets, TLC

VARIABLES given, doc, check_keys, move_id, allow_id_arg, oomAt, pc, out, dec,
          wire, inc, ids

vars == <<given, doc, check_keys, move_id, allow_id_arg, oomAt, pc, out, dec, wire, inc, ids>>

(***************************************************************************)
(* Bounds of the model.                                                    *)
(***************************************************************************)
\* The most pairs of a generated top-level document.
MaxPairs == 3
\* The buffer operations (append, reserve) of one call among which one may
\* be made to fail for want of memory.
MaxFail == 6
\* The ids one process generates.
MaxIds == 3

(***************************************************************************)
(* Bytes and sequences.                                                    *)
(***************************************************************************)
Uninit == 256
FILL == 97

ItemLen(x) == IF x < 0 THEN -x ELSE 1

RECURSIVE ItemsLen(_)
ItemsLen(s) == IF s = <<>> THEN 0 ELSE ItemLen(Head(s)) + ItemsLen(Tail(s))

\* RSTRING_LEN: the length in bytes of a Ruby string.
RSTRING_LEN(s) == ItemsLen(s)

Range(s) == {s[i] : i \in 1..Len(s)}

Take(s, n) == SubSeq(s, 1, n)
Drop(s, n) == SubSeq(s, n + 1, Len(s))

\* The index of the first NUL of s at or after index i, or Len(s)+1.
RECURSIVE FindNul(_, _)
FindNul(s, i) == IF i > Len(s) THEN i
                 ELSE IF s[i] = 0 THEN i
                 ELSE FindNul(s, i + 1)

\* The C string a char* to the bytes s reads: the bytes before the first NUL.
CStr(s) == Take(s, FindNul(s, 1) - 1)

\* strcmp(a, b) == 0 on the char* of two Ruby strings.
StrcmpEq(a, b) == CStr(a) = CStr(b)

\* A 32-bit int as its 4 little-endian bytes (two's complement).
LE32(n) == LET m == IF n < 0 THEN n + 2147483647 + 1 ELSE n
               b4 == (m \div 16777216) + (IF n < 0 THEN 128 ELSE 0)
           IN <<m % 256, (m \div 256) % 256, (m \div 65536) % 256, b4>>

\* The int that memcpy reads from 4 little-endian bytes.
RdInt32(b) == LET h == IF b[4] >= 128 THEN b[4] - 256 ELSE b[4]
              IN  h * 16777216 + b[3] * 65536 + b[2] * 256 + b[1]

(***************************************************************************)
(* Ruby integers.                                                          *)
(***************************************************************************)
RECURSIVE StripZeros(_)
StripZeros(m) == IF m = <<>> THEN <<>>
                 ELSE IF m[Len(m)] = 0 THEN StripZeros(Take(m, Len(m) - 1))
                 ELSE m

\* Compare two magnitudes: -1, 0 or 1.
RECURSIVE MagCmpFrom(_, _, _)
MagCmpFrom(a, b, i) == IF i = 0 THEN 0
                       ELSE IF a[i] > b[i] THEN 1
                       ELSE IF a[i] < b[i] THEN -1
                       ELSE MagCmpFrom(a, b, i - 1)

MagCmp(a, b) == IF Len(a) > Len(b) THEN 1
                ELSE IF Len(a) < Len(b) THEN -1
                ELSE MagCmpFrom(a, b, Len(a))

\* Integer#<=> : -1, 0 or 1.
BigCmp(a, b) == IF a.neg /\ ~b.neg THEN -1
                ELSE IF ~a.neg /\ b.neg THEN 1
                ELSE IF a.neg THEN MagCmp(b.mag, a.mag)
                ELSE MagCmp(a.mag, b.mag)

BigGt(a, b) == BigCmp(a, b) = 1
BigLt(a, b) == BigCmp(a, b) = -1

Big(neg, mag) == [neg |-> neg, mag |-> mag]

\* 9223372036854775807LL, -9223372036854775808, 2147483647L, -2147483648L.
LLONG_MAX_NUM == Big(FALSE, <<255, 255, 255, 255, 255, 255, 255, 127>>)
LLONG_MIN_NUM == Big(TRUE, <<0, 0, 0, 0, 0, 0, 0, 128>>)
INT_MAX_NUM == Big(FALSE, <<255, 255, 255, 127>>)
INT_MIN_NUM == Big(TRUE, <<0, 0, 0, 128>>)

PadTo(m, n) == m \o [i \in 1..(n - Len(m)) |-> 0]

\* Two's complement negation of a little-endian byte string.
RECURSIVE NegBytes(_, _)
NegBytes(b, carry) ==
    IF b = <<>> THEN <<>>
    ELSE LET v == (255 - Head(b)) + carry
         IN  <<v % 256>> \o NegBytes(Tail(b), v \div 256)

\* NUM2LL: the long long of an integer in range, as its 8 bytes.
NUM2LL(v) == IF v.neg THEN NegBytes(PadTo(v.mag, 8), 1) ELSE PadTo(v.mag, 8)

\* LL2NUM of a two's complement little-endian value of Len(b) bytes.
LL2NUM(b) == IF b[Len(b)] >= 128
             THEN Big(TRUE, StripZeros(NegBytes(b, 1)))
             ELSE Big(FALSE, StripZeros(b))

(***************************************************************************)
(* The byte buffer (buffer.h).  A writer W is the buffer together with the *)
(* state of the call that writes it: status is "ok" while the call runs    *)
(* and the raised exception after rb_raise; freed counts buffer_free;      *)
(* ops counts the appends and reserves, of which number oom fails; arg4 is *)
(* the value the callback of rb_hash_foreach finds in its fourth           *)
(* parameter, which its caller never sets.  path, keys, docs and deleted   *)
(* record what the call did: the place in the document of the element      *)
(* being written, each key written, each document framed, each             *)
(* rb_hash_delete.                                                         *)
(***************************************************************************)
buffer_new(oom, arg4) ==
    [buf |-> <<>>, position |-> 0, status |-> "ok", why |-> "", freed |-> 0,
     afterFree |-> FALSE, ops |-> 0, oom |-> oom, arg4 |-> arg4,
     path |-> <<>>, keys |-> <<>>, docs |-> <<>>, deleted |-> <<>>]

buffer_get_position(W) == W.position

\* rb_raise: the exception leaves the call.
rb_raise(W, exc, why) == [W EXCEPT !.status = exc, !.why = why]

buffer_free(W) == [W EXCEPT !.freed = @ + 1, !.buf = <<>>, !.position = 0]

\* Whether the next append or reserve fails to allocate.
AllocFails(W) == W.ops + 1 = W.oom

\* buffer_write: append, or fail (nonzero) when memory cannot be had.
buffer_write(W, data) ==
    [W EXCEPT !.buf = @ \o data, !.position = @ + ItemsLen(data),
              !.ops = @ + 1, !.afterFree = @ \/ W.freed > 0]

\* buffer_save_space: reserve n bytes, left unwritten.
buffer_save_space(W, n) ==
    [W EXCEPT !.buf = @ \o [i \in 1..n |-> Uninit], !.position = @ + n,
              !.ops = @ + 1, !.afterFree = @ \/ W.freed > 0]

\* The index in buf of the item at byte offset pos.
RECURSIVE IndexAt(_, _, _)
IndexAt(buf, pos, i) == IF pos <= 0 \/ i > Len(buf) THEN i
                        ELSE IndexAt(buf, pos - ItemLen(buf[i]), i + 1)

\* buffer_write_at_position: overwrite inside what was written.
WriteAtOk(W, pos, data) == pos >= 0 /\ pos + Len(data) <= W.position

buffer_write_at_position(W, pos, data) ==
    LET i == IndexAt(W.buf, pos, 1)
    IN  [W EXCEPT !.buf = [j \in 1..Len(@) |->
                              IF j >= i /\ j < i + Len(data) THEN data[j - i + 1]
                              ELSE @[j]],
                  !.afterFree = @ \/ W.freed > 0]

\* SAFE_WRITE
SAFE_WRITE(W, data) ==
    IF W.status # "ok" THEN W
    ELSE IF AllocFails(W)
         THEN rb_raise([W EXCEPT !.ops = @ + 1], "NoMemError", "write")
         ELSE buffer_write(W, data)

\* buffer_save_space followed by the caller's test of -1.
SAVE_SPACE(W, n) ==
    IF W.status # "ok" THEN W
    ELSE IF AllocFails(W)
         THEN rb_raise([W EXCEPT !.ops = @ + 1], "NoMemError", "reserve")
         ELSE buffer_save_space(W, n)

\* SAFE_WRITE_AT_POS
SAFE_WRITE_AT_POS(W, pos, data) ==
    IF W.status # "ok" THEN W
    ELSE IF ~WriteAtOk(W, pos, data)
         THEN rb_raise(W, "RuntimeError", "patch")
         ELSE buffer_write_at_position(W, pos, data)

\* buffer_free(buffer); rb_raise(exc, ...)
FreeAndRaiseMutantNoRaise(W, exc, why) ==
    IF W.status # "ok" THEN W ELSE buffer_free(W)

FreeAndRaise(W, exc, why) ==
    IF W.status # "ok" THEN W ELSE rb_raise(buffer_free(W), exc, why)

(***************************************************************************)
(* The serializer.                                                         *)
(***************************************************************************)
ID_NAME == <<95, 105, 100>>          \* "_id"
REF_NAME == <<36, 114, 101, 102>>    \* "$ref"
DOLLAR_ID_NAME == <<36, 105, 100>>   \* "$id"
CH_DOLLAR == 36
CH_DOT == 46
CH_I == 105
CH_M == 109
CH_X == 120
CH_ZERO == 48
MAX_DOC_SIZE == 4 * 1024 * 1024

StrKey(s) == [kt |-> "str", s |-> s]
SymKey(s) == [kt |-> "sym", s |-> s]

\* The record of where an element lies: pushed around the writing of it.
Push(W, kind, i) ==
    IF W.status # "ok" THEN W
    ELSE [W EXCEPT !.path = Append(@, [kind |-> kind, i |-> i])]
Pop(W) ==
    IF W.status # "ok" THEN W
    ELSE [W EXCEPT !.path = Take(@, Len(@) - 1)]

\* check_string(ptr, len, 0, check_null) of encoding_helpers.h, as the build
\* with ruby/encoding.h calls it.
check_string(s, check_null) ==
    IF check_null = 1 /\ 0 \in Range(s) THEN "HAS_NULL" ELSE "VALID"

write_utf8(W, string, check_null) ==
    IF W.status # "ok" THEN W
    ELSE IF check_string(string, check_null) = "HAS_NULL"
         THEN FreeAndRaise(W, "InvalidDocument", "null byte")
         ELSE SAFE_WRITE(W, string)

LogKey(W, name) ==
    IF W.status # "ok" THEN W
    ELSE [W EXCEPT !.keys = Append(@, [key |-> name, path |-> W.path])]

write_name_and_typeMutantNoNul(W, name, type) ==
    LogKey(write_utf8(SAFE_WRITE(W, <<type>>), name, 1), name)

write_name_and_type(W, name, type) ==
    LogKey(SAFE_WRITE(write_utf8(SAFE_WRITE(W, <<type>>), name, 1), <<0>>), name)

\* The test of check_keys == Qtrue in write_element_allow_id.
CheckKeyMutantNoDot(W, key, ck) ==
    IF W.status = "ok" /\ ck = TRUE /\ RSTRING_LEN(key) > 0 /\ key[1] = CH_DOLLAR
    THEN FreeAndRaise(W, "InvalidName", "dollar")
    ELSE W

CheckKey(W, key, ck) ==
    IF W.status # "ok" \/ ck # TRUE THEN W
    ELSE IF RSTRING_LEN(key) > 0 /\ key[1] = CH_DOLLAR
         THEN FreeAndRaise(W, "InvalidName", "dollar")
         ELSE IF \E i \in 1..Len(key) : key[i] = CH_DOT
              THEN FreeAndRaise(W, "InvalidName", "dot")
              ELSE W

\* case T_BIGNUM, T_FIXNUM
WriteIntMutantGe(W, key, value) ==
    IF BigGt(value, LLONG_MAX_NUM) \/ BigLt(value, LLONG_MIN_NUM)
    THEN FreeAndRaise(W, "RangeError", "8-byte ints")
    ELSE IF BigCmp(value, INT_MAX_NUM) >= 0 \/ BigLt(value, INT_MIN_NUM)
         THEN SAFE_WRITE(write_name_and_type(W, key, 18), NUM2LL(value))
         ELSE SAFE_WRITE(write_name_and_type(W, key, 16), Take(NUM2LL(value), 4))

WriteInt(W, key, value) ==
    IF BigGt(value, LLONG_MAX_NUM) \/ BigLt(value, LLONG_MIN_NUM)
    THEN FreeAndRaise(W, "RangeError", "8-byte ints")
    ELSE IF BigGt(value, INT_MAX_NUM) \/ BigLt(value, INT_MIN_NUM)
         THEN SAFE_WRITE(write_name_and_type(W, key, 18), NUM2LL(value))
         ELSE SAFE_WRITE(write_name_and_type(W, key, 16), Take(NUM2LL(value), 4))

\* INT2STRING: "%d" of a non-negative int.
RECURSIVE INT2STRING(_)
INT2STRING(i) == IF i < 10 THEN <<CH_ZERO + i>>
                 ELSE INT2STRING(i \div 10) \o <<CH_ZERO + (i % 10)>>

\* A small int as a Ruby integer.
RECURSIVE MagOf(_)
MagOf(n) == IF n = 0 THEN <<>> ELSE <<n % 256>> \o MagOf(n \div 256)
BigOf(n) == IF n < 0 THEN Big(TRUE, MagOf(-n)) ELSE Big(FALSE, MagOf(n))

\* round(t * 1000) of a time of us microseconds: half away from zero.
RoundMillis(us) == IF us >= 0 THEN (us + 500) \div 1000
                   ELSE -((-us + 500) \div 1000)

\* The framing of a document was finished: its first byte and the byte after
\* its last.
LogDoc(W, start) ==
    IF W.status # "ok" THEN W
    ELSE [W EXCEPT !.docs = Append(@, [start |-> start, end |-> W.position,
                                        path |-> W.path])]

\* cmp_char on the build's (signed) char.
SChar(b) == IF b >= 128 THEN b - 256 ELSE b
cmp_char(a, b) == SChar(a) - SChar(b)

\* qsort(base, n, 1, cmp_char)
RECURSIVE Insert(_, _)
Insert(x, s) == IF s = <<>> THEN <<x>>
                ELSE IF cmp_char(x, Head(s)) <= 0 THEN <<x>> \o s
                ELSE <<Head(s)>> \o Insert(x, Tail(s))
RECURSIVE qsort(_)
qsort(s) == IF s = <<>> THEN <<>> ELSE Insert(Head(s), qsort(Tail(s)))

\* qsort(buffer_get_buffer(buffer) + old_position, n, ...): in place.
SortTail(W, old_position, n) ==
    IF W.status # "ok" THEN W
    ELSE LET i == IndexAt(W.buf, old_position, 1)
         IN  [W EXCEPT !.buf = Take(@, i - 1) \o qsort(SubSeq(@, i, i + n - 1))
                                \o Drop(@, i + n - 1)]

\* has_key? and rb_hash_aref on the pairs of a hash.
HasKey(pairs, key) == \E i \in 1..Len(pairs) : pairs[i].k = key
Aref(pairs, key) == pairs[CHOOSE i \in 1..Len(pairs) : pairs[i].k = key].v

\* rb_hash_delete
RECURSIVE HashDelete(_, _)
HashDelete(pairs, key) ==
    IF pairs = <<>> THEN <<>>
    ELSE IF Head(pairs).k = key THEN Tail(pairs)
    ELSE <<Head(pairs)>> \o HashDelete(Tail(pairs), key)

LogDelete(W) == [W EXCEPT !.deleted = Append(@, W.path)]

RECURSIVE write_doc(_, _, _, _)
RECURSIVE write_element_allow_id(_, _, _, _, _)
RECURSIVE WriteValue(_, _, _, _)
RECURSIVE WritePairs(_, _, _, _, _)
RECURSIVE WriteItems(_, _, _, _)

\* The loop of case T_ARRAY: element i as key "i-1".
WriteItems(W, items, i, ck) ==
    IF W.status # "ok" \/ i > Len(items) THEN W
    ELSE WriteItems(
           Pop(write_element_allow_id(Push(W, "array", i),
                   StrKey(INT2STRING(i - 1)), items[i], ck, 0)),
           items, i + 1, ck)

\* The loop of write_doc over the keys (OrderedHash) or rb_hash_foreach.
WritePairs(W, pairs, i, ck, allow_id) ==
    IF W.status # "ok" \/ i > Len(pairs) THEN W
    ELSE WritePairs(
           Pop(write_element_allow_id(Push(W, "doc", i),
                   pairs[i].k, pairs[i].v, ck, allow_id)),
           pairs, i + 1, ck, allow_id)

\* SAFE_WRITE_AT_POS(buffer, length_location, &length, 4), the length being
\* buffer_get_position(buffer) - start_position.
PatchLengthMutantNoPrefix(W, start_position) ==
    SAFE_WRITE_AT_POS(W, start_position,
                      LE32(buffer_get_position(W) - start_position - 4))

PatchLength(W, start_position) ==
    SAFE_WRITE_AT_POS(W, start_position,
                      LE32(buffer_get_position(W) - start_position))

\* "write null byte and fill in length" of an array and of a DBRef.
EndDoc(W, start_position) ==
    PatchLength(LogDoc(SAFE_WRITE(W, <<0>>), start_position), start_position)

\* case T_ARRAY, after write_name_and_type
ArrayBody(W, value, ck) ==
    EndDoc(WriteItems(SAVE_SPACE(W, 4), value.items, 1, ck),
           buffer_get_position(W))

WriteArray(W, key, value, ck) ==
    ArrayBody(write_name_and_type(W, key, 4), value, ck)

\* case T_STRING, class Mongo::Code: the code as a string
CodeString(W, value) ==
    SAFE_WRITE(SAFE_WRITE(SAFE_WRITE(W, LE32(RSTRING_LEN(value.s) + 1)),
                          value.s), <<0>>)

\* case T_STRING, class Mongo::Code, after write_name_and_type
CodeBody(W, value) ==
    PatchLength(
        Pop(write_doc(Push(CodeString(SAVE_SPACE(W, 4), value), "scope", 0),
                      value.scope, FALSE, FALSE)),
        buffer_get_position(W))

WriteCode(W, key, value) == CodeBody(write_name_and_type(W, key, 15), value)

\* case T_STRING, any other class
WriteString(W, key, value) ==
    SAFE_WRITE(write_utf8(SAFE_WRITE(write_name_and_type(W, key, 2),
                                     LE32(RSTRING_LEN(value.s) + 1)),
                          value.s, 0), <<0>>)

\* case T_SYMBOL
WriteSymbol(W, key, value) ==
    SAFE_WRITE(SAFE_WRITE(write_name_and_type(W, key, 14),
                          LE32(Len(CStr(value.s)) + 1)),
               CStr(value.s) \o <<0>>)

\* case T_OBJECT, class Mongo::Binary or ByteBuffer
BinarySubtype(value) == IF value.cls = "ByteBuffer" THEN 2 ELSE value.subtype

BinaryHead(W, subtype, length) ==
    IF subtype = 2
    THEN SAFE_WRITE(SAFE_WRITE(SAFE_WRITE(W, LE32(length + 4)), <<subtype>>),
                    LE32(length))
    ELSE SAFE_WRITE(SAFE_WRITE(W, LE32(length)), <<subtype>>)

WriteBinary(W, key, value) ==
    SAFE_WRITE(BinaryHead(write_name_and_type(W, key, 5), BinarySubtype(value),
                          RSTRING_LEN(value.data)),
               value.data)

\* case T_OBJECT, class Mongo::ObjectID: twelve writes of one byte.
RECURSIVE WriteBytes(_, _, _)
WriteBytes(W, bytes, i) ==
    IF W.status # "ok" \/ i > Len(bytes) THEN W
    ELSE WriteBytes(SAFE_WRITE(W, <<bytes[i]>>), bytes, i + 1)

WriteObjectID(W, key, value) ==
    WriteBytes(write_name_and_type(W, key, 7), value.bytes, 1)

\* case T_OBJECT, class Mongo::DBRef, after write_name_and_type
DBRefBody(W, value) ==
    EndDoc(
        Pop(write_element_allow_id(
              Push(Pop(write_element_allow_id(
                         Push(SAVE_SPACE(W, 4), "dbref", 1),
                         StrKey(REF_NAME), value.ns, FALSE, 0)),
                   "dbref", 2),
              StrKey(DOLLAR_ID_NAME), value.oid, FALSE, 0)),
        buffer_get_position(W))

WriteDBRef(W, key, value) == DBRefBody(write_name_and_type(W, key, 3), value)

\* case T_DATA, class Time
WriteTime(W, key, value) ==
    SAFE_WRITE(write_name_and_type(W, key, 9),
               NUM2LL(BigOf(RoundMillis(value.us))))

\* if (flags & F) SAFE_WRITE(buffer, &letter, 1)
WriteFlag(W, set, letter) == IF set THEN SAFE_WRITE(W, <<letter>>) ELSE W

\* case T_REGEXP: the extra options, sorted where they were written.
WriteExtra(W, value) ==
    IF value.cls = "RegexpOfHolding"
    THEN SortTail(SAFE_WRITE(W, value.extra), buffer_get_position(W),
                  RSTRING_LEN(value.extra))
    ELSE W

\* case T_REGEXP
WriteRegexp(W, key, value) ==
    SAFE_WRITE(
        WriteExtra(
            WriteFlag(
                WriteFlag(
                    WriteFlag(
                        SAFE_WRITE(write_utf8(write_name_and_type(W, key, 11),
                                              value.pattern, 1), <<0>>),
                        value.i, CH_I),
                    value.m, CH_M),
                value.x, CH_X),
            value),
        <<0>>)

\* switch(TYPE(value)) of write_element_allow_id
WriteValue(W, key, value, ck) ==
    IF W.status # "ok" THEN W
    ELSE CASE value.t = "int" -> WriteInt(W, key, Big(value.neg, value.mag))
         [] value.t = "true" -> SAFE_WRITE(write_name_and_type(W, key, 8), <<1>>)
         [] value.t = "false" -> SAFE_WRITE(write_name_and_type(W, key, 8), <<0>>)
         [] value.t = "float" -> SAFE_WRITE(write_name_and_type(W, key, 1), value.bits)
         [] value.t = "nil" -> write_name_and_type(W, key, 10)
         [] value.t = "hash" ->
              write_doc(write_name_and_type(W, key, 3), value, ck, FALSE)
         [] value.t = "array" -> WriteArray(W, key, value, ck)
         [] value.t = "code" -> WriteCode(W, key, value)
         [] value.t = "str" -> WriteString(W, key, value)
         [] value.t = "sym" -> WriteSymbol(W, key, value)
         [] value.t = "binary" -> WriteBinary(W, key, value)
         [] value.t = "oid" -> WriteObjectID(W, key, value)
         [] value.t = "dbref" -> WriteDBRef(W, key, value)
         [] value.t = "maxkey" -> write_name_and_type(W, key, 127)
         [] value.t = "minkey" -> write_name_and_type(W, key, 255)
         [] value.t = "time" -> WriteTime(W, key, value)
         [] value.t = "regex" -> WriteRegexp(W, key, value)
         [] OTHER -> FreeAndRaise(W, "InvalidDocument", "unsupported")

\* The key as a string: rb_str_new2(rb_id2name(SYM2ID(key))) of a symbol.
KeyString(key) == IF key.kt = "sym" THEN StrKey(CStr(key.s)) ELSE key

\* The test of !allow_id && strcmp("_id", RSTRING_PTR(key)) == 0.
IsSkippedId(key, allow_id) == allow_id = 0 /\ StrcmpEq(ID_NAME, key)

write_element_allow_id(W, key, value, ck, allow_id) ==
    IF W.status # "ok" THEN W
    ELSE IF KeyString(key).kt # "str" THEN FreeAndRaise(W, "TypeError", "key")
    ELSE IF IsSkippedId(KeyString(key).s, allow_id) THEN W
    ELSE WriteValue(CheckKey(W, KeyString(key).s, ck), KeyString(key).s,
                    value, ck)

\* write_doc, after the trailing null byte: the test against 4 MiB and the
\* length.
CheckSizeMutantNoLimit(W, start_position) ==
    IF W.status # "ok" THEN W
    ELSE PatchLength(LogDoc(W, start_position), start_position)

CheckSize(W, start_position) ==
    IF W.status # "ok" THEN W
    ELSE IF buffer_get_position(W) - start_position > MAX_DOC_SIZE
         THEN FreeAndRaise(W, "InvalidDocument", "too large")
         ELSE PatchLength(LogDoc(W, start_position), start_position)

\* write_doc, from the trailing null byte on.
FinishDoc(W, start_position) == CheckSize(SAFE_WRITE(W, <<0>>), start_position)

\* write_doc, its handling of "_id" before the loop.
WriteIdFirst(W, hash, ck, mv) ==
    IF W.status # "ok" THEN W
    ELSE IF mv = TRUE
         THEN IF HasKey(hash.pairs, StrKey(ID_NAME))
              THEN Pop(write_element_allow_id(Push(W, "doc", 0), StrKey(ID_NAME),
                           Aref(hash.pairs, StrKey(ID_NAME)), ck, 1))
              ELSE IF HasKey(hash.pairs, SymKey(ID_NAME))
                   THEN Pop(write_element_allow_id(Push(W, "doc", 0),
                                SymKey(ID_NAME),
                                Aref(hash.pairs, SymKey(ID_NAME)), ck, 1))
                   ELSE W
         ELSE IF HasKey(hash.pairs, StrKey(ID_NAME))
                 /\ HasKey(hash.pairs, SymKey(ID_NAME))
              THEN LogDelete(W)
              ELSE W

\* The pairs the loop of write_doc sees: those of the hash after its
\* rb_hash_delete.
PairsAfterIdCheck(hash, mv) ==
    IF mv # TRUE /\ HasKey(hash.pairs, StrKey(ID_NAME))
       /\ HasKey(hash.pairs, SymKey(ID_NAME))
    THEN HashDelete(hash.pairs, StrKey(ID_NAME))
    ELSE hash.pairs

\* The allow_id the loop's element writer runs with: the local of write_doc
\* for an OrderedHash, and for any other hash the fourth parameter of the
\* callback, which rb_hash_foreach calls with three arguments.
LoopAllowId(W, hash, mv) ==
    IF hash.cls = "OrderedHash" THEN (IF mv = TRUE THEN 0 ELSE 1)
    ELSE W.arg4

write_doc(W, hash, ck, mv) ==
    FinishDoc(WritePairs(WriteIdFirst(SAVE_SPACE(W, 4), hash, ck, mv),
                         PairsAfterIdCheck(hash, mv), 1, ck,
                         LoopAllowId(W, hash, mv)),
              buffer_get_position(W))

\* method_serialize after write_doc: the result string, then buffer_free.
SerializeResult(W) ==
    IF W.status # "ok"
    THEN [status |-> W.status, why |-> W.why, result |-> <<>>,
          freed |-> W.freed, afterFree |-> W.afterFree, ops |-> W.ops,
          keys |-> W.keys, docs |-> W.docs, deleted |-> W.deleted]
    ELSE [status |-> "ok", why |-> "", result |-> W.buf,
          freed |-> W.freed + 1, afterFree |-> W.afterFree \/ W.freed > 0,
          ops |-> W.ops,
          keys |-> W.keys, docs |-> W.docs, deleted |-> W.deleted]

method_serialize(d, ck, mv, oom, arg4) ==
    SerializeResult(write_doc(buffer_new(oom, arg4), d, ck, mv))

(***************************************************************************)
(* The deserializer.  mem is the byte string handed to deserialize; a      *)
(* pointer is a 0-based offset into it.  A read outside mem ends the       *)
(* decoding with st = "oob": what the build does there is not defined.     *)
(* A result is [st, value, pos]: st is "ok" or what ended the decoding.    *)
(***************************************************************************)
InMem(mem, a, n) == a >= 0 /\ n >= 0 /\ a + n <= Len(mem)
Rd(mem, a, n) == SubSeq(mem, a + 1, a + n)

Res(st, value, pos) == [st |-> st, value |-> value, pos |-> pos]
NoValue == [t |-> "none"]
Fail(st) == Res(st, NoValue, 0)

\* strlen(mem + a), or -1 when no NUL lies in mem from a on.
StrLen(mem, a) ==
    IF a < 0 \/ a >= Len(mem) THEN -1
    ELSE IF FindNul(mem, a + 1) > Len(mem) THEN -1
    ELSE FindNul(mem, a + 1) - (a + 1)

\* strcmp(mem + a, s) == 0 for a NUL-free s: "yes", "no", or "oob" when the
\* comparison runs off mem before it is decided.
RECURSIVE StrcmpAt(_, _, _, _)
StrcmpAt(mem, a, s, i) ==
    IF a + i - 1 < 0 \/ a + i - 1 >= Len(mem) THEN "oob"
    ELSE IF i > Len(s) THEN (IF mem[a + i] = 0 THEN "yes" ELSE "no")
    ELSE IF mem[a + i] # s[i] THEN "no"
    ELSE StrcmpAt(mem, a, s, i + 1)

\* STR_NEW / rb_str_new of n bytes at a.
StrNew(mem, a, n) ==
    IF n < 0 THEN Fail("ArgumentError")
    ELSE IF ~InMem(mem, a, n) THEN Fail("oob")
    ELSE Res("ok", Rd(mem, a, n), 0)

\* A small Ruby integer as an int, for the arithmetic on milliseconds.
RECURSIVE MagVal(_)
MagVal(m) == IF m = <<>> THEN 0 ELSE Head(m) + 256 * MagVal(Tail(m))
FitsInt(v) == Len(v.mag) <= 3
IntOf(v) == IF v.neg THEN -MagVal(v.mag) ELSE MagVal(v.mag)

\* The signed char at a, as an int: the type of an element.
TypeAt(mem, a) == SChar(mem[a + 1])

\* The loop of case 11 over the flag bytes.
RECURSIVE ScanFlags(_, _)
ScanFlag(flag, acc) ==
    IF flag = CH_I THEN [acc EXCEPT !.i = TRUE]
    ELSE IF flag = CH_M THEN [acc EXCEPT !.m = TRUE]
    ELSE IF flag = CH_X THEN [acc EXCEPT !.x = TRUE]
    ELSE IF Len(acc.extra) < 9 THEN [acc EXCEPT !.extra = Append(@, flag)]
    ELSE acc

ScanFlags(flags, acc) ==
    IF flags = <<>> THEN acc
    ELSE ScanFlags(Tail(flags), ScanFlag(Head(flags), acc))

\* OrderedHash#[]= : replace the value of a key already there, else append.
HashStore(pairs, name, value) ==
    IF \E i \in 1..Len(pairs) : pairs[i].k = StrKey(name)
    THEN [i \in 1..Len(pairs) |->
             IF pairs[i].k = StrKey(name) THEN [k |-> StrKey(name), v |-> value]
             ELSE pairs[i]]
    ELSE Append(pairs, [k |-> StrKey(name), v |-> value])

OrderedHash(pairs) == [t |-> "hash", cls |-> "OrderedHash", pairs |-> pairs]

RECURSIVE get_value(_, _, _, _)
RECURSIVE ElementsLoop(_, _, _, _, _)
RECURSIVE ArrayLoop(_, _, _, _, _)

\* elements_to_hash: hash[name] = value, and the loop again.
ElementsStore(mem, base, max, pairs, name, r) ==
    IF r.st # "ok" THEN r
    ELSE ElementsLoop(mem, base, max, r.pos, HashStore(pairs, name, r.value))

\* elements_to_hash: the name of name_length bytes and the value after it.
ElementsName(mem, base, max, position, pairs, name_length) ==
    IF name_length < 0 THEN Fail("oob")
    ELSE ElementsStore(mem, base, max, pairs,
                       Rd(mem, base + position + 1, name_length),
                       get_value(mem, base, position + 1 + name_length + 1,
                                 TypeAt(mem, base + position)))

\* elements_to_hash(mem + base, max): position runs from 0 to max.
ElementsLoop(mem, base, max, position, pairs) ==
    IF ~(position < max) THEN Res("ok", OrderedHash(pairs), position)
    ELSE IF ~InMem(mem, base + position, 1) THEN Fail("oob")
    ELSE ElementsName(mem, base, max, position, pairs,
                      StrLen(mem, base + position + 1))

elements_to_hash(mem, base, max) == ElementsLoop(mem, base, max, 0, <<>>)

\* The loop of case 4: rb_ary_push, and the loop again.
ArrayPush(mem, base, end, items, r) ==
    IF r.st # "ok" THEN r
    ELSE ArrayLoop(mem, base, end, r.pos, Append(items, r.value))

ArrayKey(mem, base, end, position, items, key_size) ==
    IF key_size < 0 THEN Fail("oob")
    ELSE ArrayPush(mem, base, end, items,
                   get_value(mem, base, position + 1 + key_size + 1,
                             TypeAt(mem, base + position)))

ArrayLoop(mem, base, end, position, items) ==
    IF ~(position < end)
    THEN Res("ok", [t |-> "array", items |-> items], position + 1)
    ELSE IF ~InMem(mem, base + position, 1) THEN Fail("oob")
    ELSE ArrayKey(mem, base, end, position, items,
                  StrLen(mem, base + position + 1))

\* The int at mem + a.
IntAt(mem, a) == RdInt32(Rd(mem, a, 4))

\* The result r of getting a value, mapped to the value mk makes of it and
\* moved to position pos.
Then(r, mk(_), pos) == IF r.st # "ok" THEN r ELSE Res("ok", mk(r.value), pos)

MkStr(s) == [t |-> "str", s |-> s]
MkSame(v) == v

\* case 2, case 13
StringOf(mem, base, position, value_length) ==
    Then(StrNew(mem, base + position + 4, value_length), MkStr,
         position + 4 + value_length + 1)

GetString(mem, base, position) ==
    IF ~InMem(mem, base + position, 4) THEN Fail("oob")
    ELSE StringOf(mem, base, position, IntAt(mem, base + position) - 1)

\* case 3, the DBRef branch: rb_class_new_instance(2, argv, DBRef)
NewDBRef(ns, id, pos) ==
    IF id.st # "ok" THEN id
    ELSE Res("ok", [t |-> "dbref", ns |-> MkStr(ns.value), oid |-> id.value],
             pos)

\* case 3, the DBRef branch from id_type = buffer[offset] on.
DBRefId(mem, base, ns, offset, pos) ==
    IF ns.st # "ok" THEN ns
    ELSE IF ~InMem(mem, base + offset, 1) THEN Fail("oob")
    ELSE NewDBRef(ns, get_value(mem, base, offset + 5,
                                TypeAt(mem, base + offset)), pos)

DBRefNs(mem, base, offset, collection_length, pos) ==
    DBRefId(mem, base, StrNew(mem, base + offset + 4, collection_length),
            offset + 4 + collection_length + 1, pos)

GetDBRef(mem, base, position, size) ==
    IF ~InMem(mem, base + position + 10, 4) THEN Fail("oob")
    ELSE DBRefNs(mem, base, position + 10,
                 IntAt(mem, base + position + 10) - 1, position + size)

\* case 3
DocOf(mem, base, position, size, isref) ==
    IF isref = "oob" THEN Fail("oob")
    ELSE IF isref = "yes" THEN GetDBRef(mem, base, position, size)
    ELSE Then(elements_to_hash(mem, base + position + 4, size - 5), MkSame,
              position + size)

GetDoc(mem, base, position) ==
    IF ~InMem(mem, base + position, 4) THEN Fail("oob")
    ELSE DocOf(mem, base, position, IntAt(mem, base + position),
               StrcmpAt(mem, base + position + 5, REF_NAME, 1))

\* case 4
GetArray(mem, base, position) ==
    IF ~InMem(mem, base + position, 4) THEN Fail("oob")
    ELSE ArrayLoop(mem, base, position + IntAt(mem, base + position) - 1,
                   position + 4, <<>>)

\* case 5
NewBinary(data, subtype, pos) ==
    IF data.st # "ok" THEN data
    ELSE Res("ok", [t |-> "binary", cls |-> "Mongo::Binary",
                    subtype |-> subtype, data |-> data.value], pos)

BinaryOf(mem, base, position, length, subtype) ==
    NewBinary(IF subtype = 2
              THEN StrNew(mem, base + position + 9, length - 4)
              ELSE StrNew(mem, base + position + 5, length),
              subtype, position + length + 5)

GetBinary(mem, base, position) ==
    IF ~InMem(mem, base + position, 5) THEN Fail("oob")
    ELSE BinaryOf(mem, base, position, IntAt(mem, base + position),
                  mem[base + position + 4 + 1])

\* case 9: Time.at(millis / 1000, (millis % 1000) * 1000), C's / and %
\* truncating toward zero.
TruncDiv(a, b) == IF a >= 0 THEN a \div b ELSE -((-a) \div b)
TruncMod(a, b) == a - TruncDiv(a, b) * b

TimeOf(millis) ==
    IF FitsInt(millis)
    THEN [t |-> "time",
          us |-> TruncDiv(IntOf(millis), 1000) * 1000000
                 + TruncMod(IntOf(millis), 1000) * 1000]
    ELSE [t |-> "time_ms", ms |-> millis]

GetTime(mem, base, position) ==
    IF ~InMem(mem, base + position, 8) THEN Fail("oob")
    ELSE Res("ok", TimeOf(LL2NUM(Rd(mem, base + position, 8))), position + 8)

\* case 11
NewRegexp(pattern, f, pos) ==
    Res("ok", [t |-> "regex",
               cls |-> IF f.extra = <<>> THEN "Regexp" ELSE "RegexpOfHolding",
               pattern |-> pattern, i |-> f.i, m |-> f.m, x |-> f.x,
               extra |-> f.extra], pos)

RegexpFlags(mem, base, position, pattern, flags_length) ==
    IF flags_length < 0 THEN Fail("oob")
    ELSE NewRegexp(pattern,
                   ScanFlags(Rd(mem, base + position, flags_length),
                             [i |-> FALSE, m |-> FALSE, x |-> FALSE,
                              extra |-> <<>>]),
                   position + flags_length + 1)

RegexpOf(mem, base, position, pattern_length) ==
    IF pattern_length < 0 THEN Fail("oob")
    ELSE RegexpFlags(mem, base, position + pattern_length + 1,
                     Rd(mem, base + position, pattern_length),
                     StrLen(mem, base + position + pattern_length + 1))

GetRegexp(mem, base, position) ==
    RegexpOf(mem, base, position, StrLen(mem, base + position))

\* case 12
NewDBPointer(mem, base, collection, position) ==
    IF collection.st # "ok" THEN collection
    ELSE IF ~InMem(mem, base + position, 12) THEN Fail("oob")
    ELSE Res("ok", [t |-> "dbref", ns |-> MkStr(collection.value),
                    oid |-> [t |-> "oid",
                             bytes |-> Rd(mem, base + position, 12)]],
             position + 12)

DBPointerOf(mem, base, position, collection_length) ==
    NewDBPointer(mem, base,
                 StrNew(mem, base + position + 4, collection_length),
                 position + 4 + collection_length + 1)

GetDBPointer(mem, base, position) ==
    IF ~InMem(mem, base + position, 4) THEN Fail("oob")
    ELSE DBPointerOf(mem, base, position, IntAt(mem, base + position) - 1)

\* case 14
SymbolOf(mem, base, position, value_length, n) ==
    IF n < 0 THEN Fail("oob")
    ELSE Res("ok", [t |-> "sym", s |-> Rd(mem, base + position + 4, n)],
             position + value_length + 4)

GetSymbol(mem, base, position) ==
    IF ~InMem(mem, base + position, 4) THEN Fail("oob")
    ELSE SymbolOf(mem, base, position, IntAt(mem, base + position),
                  StrLen(mem, base + position + 4))

\* case 15
NewCode(code, scope, pos) ==
    IF scope.st # "ok" THEN scope
    ELSE Res("ok", [t |-> "code", s |-> code.value, scope |-> scope.value], pos)

CodeScope(mem, base, code, position) ==
    IF code.st # "ok" THEN code
    ELSE IF ~InMem(mem, base + position, 4) THEN Fail("oob")
    ELSE NewCode(code,
                 elements_to_hash(mem, base + position + 4,
                                  IntAt(mem, base + position) - 5),
                 position + IntAt(mem, base + position))

CodeOf(mem, base, position, code_length) ==
    CodeScope(mem, base, StrNew(mem, base + position + 8, code_length),
              position + 8 + code_length + 1)

GetCode(mem, base, position) ==
    IF ~InMem(mem, base + position + 4, 4) THEN Fail("oob")
    ELSE CodeOf(mem, base, position, IntAt(mem, base + position + 4) - 1)

\* Reading n raw bytes at position into a value.
GetFixed(mem, base, position, n, mk(_)) ==
    IF ~InMem(mem, base + position, n) THEN Fail("oob")
    ELSE Res("ok", mk(Rd(mem, base + position, n)), position + n)

MkFloat(b) == [t |-> "float", bits |-> b]
MkOid(b) == [t |-> "oid", bytes |-> b]
MkBool(b) == IF b[1] # 0 THEN [t |-> "true"] ELSE [t |-> "false"]
MkInt(b) == [t |-> "int", neg |-> LL2NUM(b).neg, mag |-> LL2NUM(b).mag]
MkTimestamp(b) == [t |-> "array",
                   items |-> <<MkInt(Take(b, 4)), MkInt(Drop(b, 4))>>]

get_value(mem, base, position, type) ==
    CASE type = -1 -> Res("ok", [t |-> "minkey"], position)
      [] type = 1 -> GetFixed(mem, base, position, 8, MkFloat)
      [] type \in {2, 13} -> GetString(mem, base, position)
      [] type = 3 -> GetDoc(mem, base, position)
      [] type = 4 -> GetArray(mem, base, position)
      [] type = 5 -> GetBinary(mem, base, position)
      [] type \in {6, 10} -> Res("ok", [t |-> "nil"], position)
      [] type = 7 -> GetFixed(mem, base, position, 12, MkOid)
      [] type = 8 -> GetFixed(mem, base, position, 1, MkBool)
      [] type = 9 -> GetTime(mem, base, position)
      [] type = 11 -> GetRegexp(mem, base, position)
      [] type = 12 -> GetDBPointer(mem, base, position)
      [] type = 14 -> GetSymbol(mem, base, position)
      [] type = 15 -> GetCode(mem, base, position)
      [] type = 16 -> GetFixed(mem, base, position, 4, MkInt)
      [] type = 17 -> GetFixed(mem, base, position, 8, MkTimestamp)
      [] type = 18 -> GetFixed(mem, base, position, 8, MkInt)
      [] type = 127 -> Res("ok", [t |-> "maxkey"], position)
      [] OTHER -> Fail("TypeError")

method_deserialize(bson) == elements_to_hash(bson, 4, Len(bson) - 5)

(***************************************************************************)
(* The generator of object ids.  A C integer is the sequence of its bytes  *)
(* in memory, the least significant first as on the hosts the serializer   *)
(* writes BSON's little-endian integers on.                                *)
(***************************************************************************)
COUNTER_MOD == 256 * 256 * 256

\* The n bytes in memory of the unsigned x.
RECURSIVE HostBytes(_, _)
HostBytes(x, n) ==
    IF n = 0 THEN <<>> ELSE <<x % 256>> \o HostBytes(x \div 256, n - 1)

Reverse(b) == [i \in 1..Len(b) |-> b[Len(b) + 1 - i]]

\* htonl, htons: the bytes in memory of the result, those of the argument
\* cut to 32 or 16 bits and swapped.
htonl(b) == Reverse(Take(b, 4))
htons(b) == Reverse(Take(b, 2))

\* unsigned long v = htonl(x): the uint32_t widened to the long of the build.
ULong(b, sizeof_long) == b \o [i \in 1..(sizeof_long - Len(b)) |-> 0]

\* MEMCPY(&oid_bytes[9], ((unsigned char*)&inc + 1), unsigned char, 3)
IncBytesMutantNoOffset(incmem) == SubSeq(incmem, 1, 3)
IncBytes(incmem) == SubSeq(incmem, 2, 4)

\* objectid_generate: time t, the MD5 digest of the host name, the pid and
\* the value c that get_inc returned.
objectid_generate(t, digest, pid, c, sizeof_long) ==
    Take(ULong(htonl(HostBytes(t, sizeof_long)), sizeof_long), 4)
      \o Take(digest, 3)
      \o htons(HostBytes(pid, 4))
      \o IncBytes(ULong(htonl(HostBytes(c, sizeof_long)), sizeof_long))

\* The values get_inc starts from and the steps it takes; the clock, the
\* pids and the digest of the host name.
IncStarts == {0, 255, 65535, COUNTER_MOD - 2}
IncSteps == {1, 2, COUNTER_MOD - 1, COUNTER_MOD}
Times == {1262304000, 1262304001}
Pids == {258, 70000}
SomeDigest == <<171, 205, 239, 1, 2, 3, 4, 5, 6, 7, 8, 9, 10, 11, 12, 13>>
MaxInc == 2 * COUNTER_MOD + 4

(***************************************************************************)
(* What rb_hash_delete leaves of the caller's document: the string "_id"   *)
(* pair is gone from each hash whose place the call recorded in deleted.   *)
(***************************************************************************)
RECURSIVE DeleteAt(_, _)
DeleteAt(value, path) ==
    IF path = <<>>
    THEN [value EXCEPT !.pairs = HashDelete(@, StrKey(ID_NAME))]
    ELSE LET step == Head(path)
             rest == Tail(path)
         IN  CASE step.kind = "doc" /\ step.i = 0 ->
                    LET key == IF HasKey(value.pairs, StrKey(ID_NAME))
                               THEN StrKey(ID_NAME) ELSE SymKey(ID_NAME)
                    IN  [value EXCEPT !.pairs = [j \in 1..Len(@) |->
                            IF @[j].k = key
                            THEN [k |-> key, v |-> DeleteAt(@[j].v, rest)]
                            ELSE @[j]]]
               [] step.kind = "doc" /\ step.i > 0 ->
                    [value EXCEPT !.pairs[step.i].v = DeleteAt(@, rest)]
               [] step.kind = "array" ->
                    [value EXCEPT !.items[step.i] = DeleteAt(@, rest)]
               [] step.kind = "dbref" /\ step.i = 1 ->
                    [value EXCEPT !.ns = DeleteAt(@, rest)]
               [] step.kind = "dbref" /\ step.i = 2 ->
                    [value EXCEPT !.oid = DeleteAt(@, rest)]
               [] step.kind = "scope" ->
                    [value EXCEPT !.scope = DeleteAt(@, rest)]

RECURSIVE DeleteAll(_, _)
DeleteAll(value, paths) ==
    IF paths = <<>> THEN value
    ELSE DeleteAll(DeleteAt(value, Head(paths)), Tail(paths))

(***************************************************************************)
(* The documents the calls are made with.                                  *)
(***************************************************************************)
IntV(neg, mag) == [t |-> "int", neg |-> neg, mag |-> mag]
SmallInt(n) == IntV(BigOf(n).neg, BigOf(n).mag)
Str(s) == [t |-> "str", s |-> s]
Sym(s) == [t |-> "sym", s |-> s]
P(k, v) == [k |-> k, v |-> v]
Hash(cls, pairs) == [t |-> "hash", cls |-> cls, pairs |-> pairs]
Array(items) == [t |-> "array", items |-> items]
Code(s, scope) == [t |-> "code", s |-> s, scope |-> scope]
Binary(cls, subtype, data) ==
    [t |-> "binary", cls |-> cls, subtype |-> subtype, data |-> data]
ObjectID(bytes) == [t |-> "oid", bytes |-> bytes]
DBRef(ns, oid) == [t |-> "dbref", ns |-> ns, oid |-> oid]
Time(us) == [t |-> "time", us |-> us]
Regexp(cls, pattern, i, m, x, extra) ==
    [t |-> "regex", cls |-> cls, pattern |-> pattern, i |-> i, m |-> m,
     x |-> x, extra |-> extra]
Float(bits) == [t |-> "float", bits |-> bits]
Unsupported(t, cls) == [t |-> t, cls |-> cls]

SomeOid == ObjectID(<<1, 2, 3, 4, 5, 6, 7, 8, 9, 10, 11, 255>>)
KA == StrKey(<<97>>)
KB == StrKey(<<98>>)
KId == StrKey(ID_NAME)
KIdSym == SymKey(ID_NAME)

\* The keys of the generated documents: "_id", :_id, "b", "$x", "a.b",
\* "_id\0x", "k\0y", and a key that is neither a string nor a symbol.
KeyCat == << KId, KIdSym, KB, StrKey(<<36, 120>>), StrKey(<<97, 46, 98>>),
             StrKey(<<95, 105, 100, 0, 120>>), StrKey(<<107, 0, 121>>),
             [kt |-> "other", s |-> <<>>] >>

\* A string of n + 1 bytes whose last n are one run.
BigStr(n) == Str(<<97, -n>>)

\* The values of the generated documents.
ValCat == <<
    SmallInt(0), SmallInt(1), SmallInt(-1),
    IntV(FALSE, <<255, 255, 255, 127>>),                          \* 2^31-1
    IntV(FALSE, <<0, 0, 0, 128>>),                                \* 2^31
    IntV(TRUE, <<0, 0, 0, 128>>),                                 \* -2^31
    IntV(TRUE, <<1, 0, 0, 128>>),                                 \* -2^31-1
    IntV(FALSE, <<255, 255, 255, 255, 255, 255, 255, 127>>),      \* 2^63-1
    IntV(FALSE, <<0, 0, 0, 0, 0, 0, 0, 128>>),                    \* 2^63
    IntV(TRUE, <<0, 0, 0, 0, 0, 0, 0, 128>>),                     \* -2^63
    IntV(TRUE, <<1, 0, 0, 0, 0, 0, 0, 128>>),                     \* -2^63-1
    IntV(FALSE, <<0, 0, 0, 0, 0, 0, 0, 0, 1>>),                   \* 2^64
    [t |-> "true"], [t |-> "false"], [t |-> "nil"],
    Float(<<0, 0, 0, 0, 0, 0, 240, 63>>),                        \* 1.0
    Str(<<104, 105>>), Str(<<>>), Str(<<97, 0, 98>>),
    Sym(<<115>>),
    Hash("OrderedHash", <<>>),
    Hash("OrderedHash", <<P(KB, SmallInt(2)), P(KId, SmallInt(1))>>),
    Hash("Hash", <<P(KB, SmallInt(2)), P(KId, SmallInt(1))>>),
    Hash("OrderedHash", <<P(KId, SmallInt(1)), P(KIdSym, SmallInt(2))>>),
    Hash("OrderedHash", <<P(StrKey(REF_NAME), Str(<<99>>)),
                          P(StrKey(DOLLAR_ID_NAME), SmallInt(1))>>),
    Hash("OrderedHash", <<P(StrKey(REF_NAME), SmallInt(7)), P(KB, SmallInt(1))>>),
    Hash("OrderedHash", <<P(StrKey(<<97, 46, 98>>), SmallInt(1))>>),
    Hash("OrderedHash", <<P(StrKey(<<107, 0, 121>>), SmallInt(1))>>),
    Hash("OrderedHash", <<P(KB, Hash("OrderedHash", <<P(KA, SmallInt(1))>>))>>),
    Array(<<>>),
    Array(<<SmallInt(10), Str(<<122>>), [t |-> "true"]>>),
    Array(<<Hash("OrderedHash", <<P(StrKey(<<36, 120>>), SmallInt(1))>>)>>),
    Array(<<Hash("OrderedHash", <<P(KId, SmallInt(1)), P(KB, SmallInt(2))>>)>>),
    Code(<<120>>, Hash("OrderedHash", <<>>)),
    Code(<<120>>, Hash("OrderedHash", <<P(StrKey(<<36, 120>>), SmallInt(1)),
                                        P(KId, SmallInt(2))>>)),
    Binary("Mongo::Binary", 0, <<1, 0, 2>>),
    Binary("Mongo::Binary", 2, <<1, 0, 2>>),
    Binary("Mongo::Binary", 128, <<>>),
    Binary("Mongo::Binary", 255, <<7>>),
    Binary("ByteBuffer", 0, <<9, 9>>),
    SomeOid,
    DBRef(Str(<<99>>), SomeOid),
    DBRef(Str(<<99>>), Hash("OrderedHash", <<P(StrKey(<<97, 46, 98>>),
                                               SmallInt(1))>>)),
    [t |-> "maxkey"], [t |-> "minkey"],
    Time(0), Time(1500000), Time(-1000),
    Regexp("Regexp", <<97>>, FALSE, FALSE, FALSE, <<>>),
    Regexp("Regexp", <<97>>, TRUE, TRUE, TRUE, <<>>),
    Regexp("Regexp", <<97, 0, 98>>, FALSE, FALSE, FALSE, <<>>),
    Regexp("RegexpOfHolding", <<97>>, FALSE, FALSE, FALSE, <<115, 117>>),
    Regexp("RegexpOfHolding", <<97>>, FALSE, FALSE, FALSE, <<117, 115>>),
    Regexp("RegexpOfHolding", <<97>>, FALSE, TRUE, FALSE, <<108>>),
    Regexp("RegexpOfHolding", <<97>>, TRUE, FALSE, TRUE, <<117>>),
    Regexp("RegexpOfHolding", <<97>>, FALSE, FALSE, FALSE,
           <<97, 98, 99, 100, 101, 102, 103, 104, 106, 107>>),
    Unsupported("object", "Date"), Unsupported("data", "BigDecimal"),
    Unsupported("class", "Class"),
    \* Documents of exactly 4 MiB, and of one byte more.
    BigStr(MAX_DOC_SIZE - 14), BigStr(MAX_DOC_SIZE - 13),
    Hash("OrderedHash", <<P(KA, BigStr(MAX_DOC_SIZE - 22))>>),
    Hash("OrderedHash", <<P(KA, BigStr(MAX_DOC_SIZE - 21))>>),
    Array(<<BigStr(MAX_DOC_SIZE - 22)>>), Array(<<BigStr(MAX_DOC_SIZE - 21)>>),
    DBRef(BigStr(MAX_DOC_SIZE - 42), SomeOid),
    DBRef(BigStr(MAX_DOC_SIZE - 41), SomeOid),
    Code(<<120>>, Hash("OrderedHash", <<P(KA, BigStr(MAX_DOC_SIZE - 32))>>)),
    Code(<<120>>, Hash("OrderedHash", <<P(KA, BigStr(MAX_DOC_SIZE - 31))>>))
  >>

\* A document of the keys ks, in this order, pair i holding the integer i.
(***************************************************************************)
(* Byte strings handed to deserialize that no call of serialize made.      *)
(***************************************************************************)
\* The bytes of an element and of a document around a body.
Elem(type, name, payload) == <<type>> \o name \o <<0>> \o payload
DocBytes(body) == LE32(Len(body) + 5) \o body \o <<0>>
CString(s) == LE32(Len(s) + 1) \o s \o <<0>>

\* Shorter than the 5 bytes of the empty document.
BytesEmpty == <<>>
BytesFour == <<5, 0, 0, 0>>
\* The last byte is not 0x00.
BytesNoEnd == <<5, 0, 0, 0, 1>>
BytesIntNoEnd == LE32(12) \o Elem(16, <<97>>, LE32(1)) \o <<7>>
\* The key "ab" of a null runs to the end of the input without a NUL.
BytesOpenKey == <<7, 0, 0, 0, 10, 97, 98>>
\* The string of "a" declares 100 bytes, the input ends after 2.
BytesLongString == DocBytes(Elem(2, <<97>>, LE32(100) \o <<120, 0>>))
\* {"a" => {"b" => s}}: the embedded document declares 13 bytes, its string
\* of 7 bytes ends 6 bytes after them.
BytesStringPastDoc ==
    DocBytes(Elem(3, <<97>>,
                  LE32(13) \o Elem(2, <<98>>, CString(<<120, 120, 10, 107, 0, 8>>))
                    \o <<0>>))
\* {"a" => Binary subtype 2}: outer length 5, inner length 99, one byte.
BytesBinaryInner ==
    DocBytes(Elem(5, <<97>>, LE32(5) \o <<2>> \o LE32(99) \o <<122>>))
\* {"a" => {}} whose embedded document declares 50 bytes.
BytesLongDoc == DocBytes(Elem(3, <<97>>, LE32(50) \o <<0>>))
\* Well formed: {} and {"a" => 1}.
BytesEmptyDoc == DocBytes(<<>>)
BytesOneInt == DocBytes(Elem(16, <<97>>, LE32(1)))

MalformedCat ==
    << BytesEmpty, BytesFour, BytesNoEnd, BytesIntNoEnd, BytesOpenKey,
       BytesLongString, BytesStringPastDoc, BytesBinaryInner, BytesLongDoc >>

\* {"a" => /ab/} with each of these flag strings: none, "i", "imx", "xmi",
\* "su", "us", "ilmsux", "ii", nine letters other than i, m, x, ten of them,
\* and ten of them among i, m and x.
FlagCat ==
    << <<>>, <<105>>, <<105, 109, 120>>, <<120, 109, 105>>, <<115, 117>>,
       <<117, 115>>, <<105, 108, 109, 115, 117, 120>>, <<105, 105>>,
       <<97, 98, 99, 100, 101, 102, 103, 104, 106>>,
       <<97, 98, 99, 100, 101, 102, 103, 104, 106, 107>>,
       <<97, 98, 105, 99, 100, 101, 109, 102, 103, 104, 106, 120, 107>> >>

RegexBytes(pattern, flags) ==
    DocBytes(Elem(11, <<97>>, pattern \o <<0>> \o flags \o <<0>>))

RegexCat == [k \in 1..Len(FlagCat) |-> RegexBytes(<<97, 98>>, FlagCat[k])]

\* {"a" => e, "z" => nil} for each of these embedded documents e:
\* {"$ref" => "c", "$id" => 7}, {"$ref" => "c", "$id" => oid}, {"b" => 1},
\* {"$refx" => "c"}, {"x" => 1, "$ref" => "c"}, {}, and with "$ref" first but
\* not the shape of a DBRef: {"$ref" => 6, "$id" => 2560},
\* {"$ref" => "c", "x" => 1}, {"$ref" => "c"}.
RefKey == <<36, 114, 101, 102>>
DollarIdKey == <<36, 105, 100>>
EmbCat ==
    << Elem(2, RefKey, CString(<<99>>)) \o Elem(16, DollarIdKey, LE32(7)),
       Elem(2, RefKey, CString(<<99>>)) \o Elem(7, DollarIdKey, SomeOid.bytes),
       Elem(16, <<98>>, LE32(1)),
       Elem(2, RefKey \o <<120>>, CString(<<99>>)),
       Elem(16, <<120>>, LE32(1)) \o Elem(2, RefKey, CString(<<99>>)),
       <<>>,
       Elem(16, RefKey, LE32(6)) \o Elem(16, DollarIdKey, LE32(2560)),
       Elem(2, RefKey, CString(<<99>>)) \o Elem(16, <<120>>, LE32(1)),
       Elem(2, RefKey, CString(<<99>>)) >>

RefBytes(body) ==
    DocBytes(Elem(3, <<97>>, DocBytes(body)) \o Elem(10, <<122>>, <<>>))

RefCat == [k \in 1..Len(EmbCat) |-> RefBytes(EmbCat[k])]

ByteCat ==
    MalformedCat \o <<BytesEmptyDoc, BytesOneInt>> \o RegexCat \o RefCat

KeyDoc(cls, ks) ==
    Hash(cls, [i \in 1..Len(ks) |-> P(KeyCat[ks[i]], SmallInt(i))])

Injective(f) == \A i, j \in DOMAIN f : i # j => f[i] # f[j]

Classes == {"OrderedHash", "Hash"}

TypeOK ==
    /\ check_keys \in BOOLEAN
    /\ move_id \in BOOLEAN
    /\ allow_id_arg \in {0, 1}
    /\ oomAt \in 0..MaxFail
    /\ pc \in {"start", "serialized", "deserialized", "bytes", "decoded", "oid"}
    /\ inc \in 0..MaxInc
    /\ Len(ids) <= MaxIds

NotYet == [status |-> "none"]

InitKeys ==
    \E cls \in Classes : \E n \in 0..MaxPairs :
      \E ks \in [1..n -> 1..Len(KeyCat)] :
        /\ Injective(ks)
        /\ given = KeyDoc(cls, ks)
        /\ oomAt = 0

InitValues ==
    \E cls \in Classes : \E v \in 1..Len(ValCat) :
        /\ given = Hash(cls, <<P(KA, ValCat[v])>>)
        /\ oomAt \in 0..MaxFail

\* The caller is about to serialize a document.
InitSerialize ==
    /\ InitKeys \/ InitValues
    /\ doc = given
    /\ check_keys \in BOOLEAN
    /\ move_id \in BOOLEAN
    /\ allow_id_arg \in {0, 1}
    /\ pc = "start"
    /\ out = NotYet
    /\ dec = NotYet
    /\ wire = <<>>
    /\ inc = 0
    /\ ids = <<>>

\* The caller is about to deserialize a byte string it got from elsewhere.
InitBytes ==
    /\ \E i \in 1..Len(ByteCat) : wire = ByteCat[i]
    /\ given = Hash("OrderedHash", <<>>)
    /\ doc = given
    /\ check_keys = FALSE
    /\ move_id = FALSE
    /\ allow_id_arg = 0
    /\ oomAt = 0
    /\ pc = "bytes"
    /\ out = NotYet
    /\ dec = NotYet
    /\ inc = 0
    /\ ids = <<>>

\* A process is about to generate object ids; inc is the value get_inc
\* returned last.

InitOid ==
    /\ inc \in IncStarts
    /\ ids = <<>>
    /\ wire = <<>>
    /\ given = Hash("OrderedHash", <<>>)
    /\ doc = given
    /\ check_keys = FALSE
    /\ move_id = FALSE
    /\ allow_id_arg = 0
    /\ oomAt = 0
    /\ pc = "oid"
    /\ out = NotYet
    /\ dec = NotYet

Init == InitSerialize \/ InitBytes \/ InitOid

\* CBson.serialize(doc, check_keys, move_id)
Serialize ==
    /\ pc = "start"
    /\ out' = method_serialize(doc, check_keys, move_id, oomAt, allow_id_arg)
    /\ doc' = DeleteAll(doc, out'.deleted)
    /\ pc' = "serialized"
    /\ wire' = out'.result
    /\ UNCHANGED <<given, check_keys, move_id, allow_id_arg, oomAt, dec, inc,
                   ids>>

NoRuns(s) == \A i \in 1..Len(s) : s[i] >= 0

\* CBson.deserialize(bson): of the bytes serialize returned, or of a byte
\* string from elsewhere.
Deserialize ==
    /\ \/ pc = "serialized" /\ out.status = "ok" /\ NoRuns(wire)
       \/ pc = "bytes"
    /\ dec' = method_deserialize(wire)
    /\ pc' = IF pc = "bytes" THEN "decoded" ELSE "deserialized"
    /\ UNCHANGED <<given, doc, check_keys, move_id, allow_id_arg, oomAt, out,
                   wire, inc, ids>>

\* ObjectID#generate: get_inc returns a value above the last one, the clock
\* and the pid are read, the 12 bytes are made.
Generate ==
    /\ pc = "oid"
    /\ Len(ids) < MaxIds
    /\ \E step \in IncSteps, t \in Times, pid \in Pids, sizeof_long \in {4, 8} :
          /\ inc + step <= MaxInc
          /\ inc' = inc + step
          /\ ids' = Append(ids, [inc |-> inc + step, t |-> t,
                                 oid |-> objectid_generate(t, SomeDigest, pid,
                                                           inc + step,
                                                           sizeof_long)])
    /\ UNCHANGED <<given, doc, check_keys, move_id, allow_id_arg, oomAt, pc,
                   out, dec, wire>>

Next == Serialize \/ Deserialize \/ Generate

Spec == Init /\ [][Next]_vars

(***************************************************************************)
(* The properties.                                                         *)
(***************************************************************************)
Done == pc \in {"serialized", "deserialized"}
Returned == Done /\ out.status = "ok"
NoFailure == oomAt = 0

\* The n bytes of buf from byte offset off on, a run read as its bytes 'a'.
ByteAt(buf, off) ==
    IF buf[IndexAt(buf, off + 1, 1) - 1] < 0 THEN FILL
    ELSE buf[IndexAt(buf, off + 1, 1) - 1]
BytesAt(buf, off, n) == [i \in 1..n |-> ByteAt(buf, off + i - 1)]

\* The document as deserialize is to return it: an OrderedHash for every
\* hash, a string key for a symbol key, a Binary of subtype 2 for a
\* ByteBuffer, the extra flag letters of a regex in their canonical order.
RECURSIVE Norm(_)
Norm(v) ==
    CASE v.t = "hash" ->
           OrderedHash([i \in 1..Len(v.pairs) |->
                          P(KeyString(v.pairs[i].k), Norm(v.pairs[i].v))])
      [] v.t = "array" -> Array([i \in 1..Len(v.items) |-> Norm(v.items[i])])
      [] v.t = "code" -> Code(v.s, Norm(v.scope))
      [] v.t = "dbref" -> DBRef(Norm(v.ns), Norm(v.oid))
      [] v.t = "binary" -> Binary("Mongo::Binary", BinarySubtype(v), v.data)
      [] v.t = "regex" ->
           Regexp(IF v.extra = <<>> THEN "Regexp" ELSE v.cls, v.pattern,
                  v.i, v.m, v.x, qsort(v.extra))
      [] OTHER -> v

\* No hash of the document holds a key under both its spellings, the string
\* and the symbol.
RECURSIVE UniqueNames(_)
UniqueNames(v) ==
    CASE v.t = "hash" ->
           /\ \A i, j \in 1..Len(v.pairs) :
                 i # j => KeyString(v.pairs[i].k) # KeyString(v.pairs[j].k)
           /\ \A i \in 1..Len(v.pairs) : UniqueNames(v.pairs[i].v)
      [] v.t = "array" -> \A i \in 1..Len(v.items) : UniqueNames(v.items[i])
      [] v.t = "code" -> UniqueNames(v.scope)
      [] v.t = "dbref" -> UniqueNames(v.ns) /\ UniqueNames(v.oid)
      [] OTHER -> TRUE

\* C1: Round trip.  Whenever serialize(D, check_keys=false, move_id=false)
\* returned bytes and deserialize was given them, deserialize returns D (up
\* to the unification of symbol and string keys and of the hash classes).
RoundTrip ==
    (pc = "deserialized" /\ ~check_keys /\ ~move_id /\ UniqueNames(given))
        => (dec.st = "ok" /\ dec.value = Norm(given))

\* C2: Framing.  In every output of serialize each document written (the
\* top-level one, embedded documents, arrays, DBRef bodies, scopes) starts
\* with its own length in bytes as a little-endian int32, counted from the
\* first byte of the length through the trailing 0x00, and ends with 0x00;
\* the top-level document is the whole output.
Framing ==
    Returned =>
        /\ Len(out.docs) >= 1
        /\ \A i \in 1..Len(out.docs) :
             /\ out.docs[i].end - out.docs[i].start >= 5
             /\ BytesAt(out.result, out.docs[i].start, 4)
                  = LE32(out.docs[i].end - out.docs[i].start)
             /\ ByteAt(out.result, out.docs[i].end - 1) = 0
        /\ out.docs[Len(out.docs)].start = 0
        /\ out.docs[Len(out.docs)].end = ItemsLen(out.result)
        /\ \A i \in 1..Len(out.result) : out.result[i] # Uninit

\* A state in which C2's case happens: an output that frames a top-level
\* document, an embedded document, an array, a DBRef or a scope.
FramingWitness ==
    /\ Returned
    /\ Len(out.docs) >= 3
    /\ \E i \in 1..Len(out.docs) : out.docs[i].start > 0

\* The integers of the 32-bit and of the 64-bit range, by their digits.
InInt32(v) ==
    \/ Len(v.mag) <= 3
    \/ Len(v.mag) = 4 /\ v.mag[4] < 128
    \/ v.neg /\ v.mag = <<0, 0, 0, 128>>
InInt64(v) ==
    \/ Len(v.mag) <= 7
    \/ Len(v.mag) = 8 /\ v.mag[8] < 128
    \/ v.neg /\ v.mag = <<0, 0, 0, 0, 0, 0, 0, 128>>

\* The call was made with the document {"a" => v}, v an integer.
OneInt ==
    /\ Len(given.pairs) = 1
    /\ given.pairs[1].k = KA
    /\ given.pairs[1].v.t = "int"
TheInt == Big(given.pairs[1].v.neg, given.pairs[1].v.mag)

\* C3: Integer container selection.  Serializing {"a" => v} writes tag 0x10
\* and the 4 little-endian bytes of v iff v is in [-2^31, 2^31-1], tag 0x12
\* and the 8 little-endian bytes of v iff v is outside that range and in
\* [-2^63, 2^63-1], and fails with RangeError, returning nothing, iff v is
\* outside [-2^63, 2^63-1].
IntContainer ==
    (Done /\ OneInt /\ NoFailure) =>
        /\ InInt32(TheInt) <=>
             /\ out.status = "ok"
             /\ Len(out.result) = 12
             /\ SubSeq(out.result, 5, 7) = <<16, 97, 0>>
             /\ LL2NUM(SubSeq(out.result, 8, 11)) = TheInt
        /\ (InInt64(TheInt) /\ ~InInt32(TheInt)) <=>
             /\ out.status = "ok"
             /\ Len(out.result) = 16
             /\ SubSeq(out.result, 5, 7) = <<18, 97, 0>>
             /\ LL2NUM(SubSeq(out.result, 8, 15)) = TheInt
        /\ ~InInt64(TheInt) <=>
             /\ out.status = "RangeError"
             /\ out.result = <<>>

\* A state in which C3's case happens: 2^31 was written as an Int64.
IntContainerWitness ==
    /\ Done /\ OneInt /\ NoFailure
    /\ TheInt = Big(FALSE, <<0, 0, 0, 128>>)
    /\ out.status = "ok"
    /\ SubSeq(out.result, 5, 5) = <<18>>

\* The names of the keys a call wrote, in the order it wrote them.
Names(keys) == [i \in 1..Len(keys) |-> keys[i].key]
IsTop(e) == Len(e.path) = 1
IsNested(e) == Len(e.path) >= 2
\* A key written inside a DBRef value or inside the scope of a Code.
Exempt(e) == \E i \in 1..Len(e.path) : e.path[i].kind \in {"dbref", "scope"}
IsChecked(e) == ~Exempt(e)

BadName(k) == (Len(k) > 0 /\ k[1] = CH_DOLLAR) \/ CH_DOT \in Range(k)

\* C4 as stated: whenever serialize is called with check_keys=true and
\* returns bytes, no element key anywhere in the output (DBRef values and
\* scope documents included) begins with '$' or contains '.'.
KeyCheckEverywhere ==
    (Returned /\ check_keys) =>
        \A i \in 1..Len(out.keys) : ~BadName(out.keys[i].key)

\* The call made without the key check, all else equal.
Unchecked == method_serialize(given, FALSE, move_id, oomAt, allow_id_arg)

\* C4, amended: whenever serialize is called with check_keys=true and
\* returns bytes, no element key of the output outside DBRef values and
\* outside CodeWithScope scope documents begins with '$' or contains '.';
\* and a call that without the check would return bytes holding such a key
\* fails with InvalidName, returning nothing.
KeyCheck ==
    (Done /\ check_keys) =>
        /\ out.status = "ok" =>
             \A i \in 1..Len(out.keys) :
                 IsChecked(out.keys[i]) => ~BadName(out.keys[i].key)
        /\ (Unchecked.status = "ok"
            /\ \E i \in 1..Len(Unchecked.keys) :
                 IsChecked(Unchecked.keys[i]) /\ BadName(Unchecked.keys[i].key))
             => (out.status = "InvalidName" /\ out.result = <<>>)

\* A state in which C4's case happens: a checked call returned bytes that
\* hold the "$ref" of a DBRef and a checked key beside it.
KeyCheckWitness ==
    /\ Returned /\ check_keys
    /\ \E i \in 1..Len(out.keys) : Exempt(out.keys[i]) /\ BadName(out.keys[i].key)
    /\ \E i \in 1..Len(out.keys) : IsChecked(out.keys[i])

\* The call was made with the document {"a" => r}, r a regex.
OneRegex ==
    /\ Len(given.pairs) = 1
    /\ given.pairs[1].k = KA
    /\ given.pairs[1].v.t = "regex"

\* The flag bytes of the output of {"a" => r}: from after the NUL of the
\* pattern to the next NUL.
FlagBytes == CStr(Drop(out.result, 7 + Len(given.pairs[1].v.pattern) + 1))

\* C5: Regex flag ordering.  The flag bytes written for a regex are in
\* non-decreasing byte order, whatever engine flags and extra letters it has.
FlagsSorted ==
    (Returned /\ OneRegex) =>
        \A i \in 1..(Len(FlagBytes) - 1) : FlagBytes[i] <= FlagBytes[i + 1]

\* The size of the encoding of a value, of an element and of a document,
\* from the layout of BSON.
RECURSIVE ValSize(_)
RECURSIVE ElemsSize(_, _)
RECURSIVE ItemsSize(_, _)
ElemSize(name, v) == 1 + Len(name) + 1 + ValSize(v)
ElemsSize(pairs, i) ==
    IF i > Len(pairs) THEN 0
    ELSE ElemSize(KeyString(pairs[i].k).s, pairs[i].v) + ElemsSize(pairs, i + 1)
ItemsSize(items, i) ==
    IF i > Len(items) THEN 0
    ELSE ElemSize(INT2STRING(i - 1), items[i]) + ItemsSize(items, i + 1)
ValSize(v) ==
    CASE v.t = "int" -> IF InInt32(v) THEN 4 ELSE 8
      [] v.t \in {"true", "false"} -> 1
      [] v.t \in {"float", "time"} -> 8
      [] v.t = "hash" -> 4 + ElemsSize(v.pairs, 1) + 1
      [] v.t = "array" -> 4 + ItemsSize(v.items, 1) + 1
      [] v.t = "code" -> 4 + 4 + ItemsLen(v.s) + 1 + ValSize(v.scope)
      [] v.t = "str" -> 4 + ItemsLen(v.s) + 1
      [] v.t = "sym" -> 4 + Len(CStr(v.s)) + 1
      [] v.t = "binary" ->
           IF BinarySubtype(v) = 2 THEN 9 + ItemsLen(v.data)
           ELSE 5 + ItemsLen(v.data)
      [] v.t = "oid" -> 12
      [] v.t = "dbref" ->
           4 + ElemSize(REF_NAME, v.ns) + ElemSize(DOLLAR_ID_NAME, v.oid) + 1
      [] v.t = "regex" ->
           Len(v.pattern) + 1
             + Len(SelectSeq(<<v.i, v.m, v.x>>, LAMBDA f : f))
             + (IF v.cls = "RegexpOfHolding" THEN Len(v.extra) ELSE 0) + 1
      [] OTHER -> 0

\* The call was made with a document {"a" => v}.
OnePair == Len(given.pairs) = 1 /\ given.pairs[1].k = KA

\* C6: Size ceiling.  serialize returns bytes only if the top-level length
\* is at most 4 MiB, and then the output is of that length; a document of
\* exactly 4 MiB is not refused as too large; a document {"a" => v} of more
\* than 4 MiB, whether the bulk of v lies in a string, an embedded document,
\* an array, a DBRef or a scope, fails with InvalidDocument; a call that
\* fails returns no bytes.
SizeCeiling ==
    Done =>
        /\ out.status = "ok" =>
             /\ ItemsLen(out.result) <= MAX_DOC_SIZE
             /\ RdInt32(BytesAt(out.result, 0, 4)) = ItemsLen(out.result)
        /\ out.status # "ok" => out.result = <<>>
        /\ (out.status = "InvalidDocument" /\ out.why = "too large")
             => ValSize(given) > MAX_DOC_SIZE
        /\ (OnePair /\ NoFailure /\ ValSize(given) > MAX_DOC_SIZE)
             => (out.status = "InvalidDocument" /\ out.why = "too large")

\* A state in which C6's case happens: a document of exactly 4 MiB whose
\* bulk is nested was returned.
SizeCeilingWitness ==
    /\ Returned
    /\ ItemsLen(out.result) = MAX_DOC_SIZE
    /\ Len(out.docs) >= 2

\* The top-level document has a key "_id", as a string or as a symbol.
HasId(hash) ==
    HasKey(hash.pairs, StrKey(ID_NAME)) \/ HasKey(hash.pairs, SymKey(ID_NAME))
IsIdKey(k) == k = StrKey(ID_NAME) \/ k = SymKey(ID_NAME)
IsIdPair(p) == IsIdKey(p.k)
IsOtherPair(p) == ~IsIdKey(p.k)
\* The value of the _id field, the string spelling first.
IdValue(hash) ==
    IF HasKey(hash.pairs, StrKey(ID_NAME))
    THEN Aref(hash.pairs, StrKey(ID_NAME))
    ELSE Aref(hash.pairs, SymKey(ID_NAME))
KeyNames(pairs) == [i \in 1..Len(pairs) |-> KeyString(pairs[i].k).s]
Unmoved == method_serialize(given, check_keys, FALSE, oomAt, allow_id_arg)

\* C7: move_id=true.  If the top-level document has a key "_id" the first
\* element of the output is that field, the output holds exactly one
\* top-level "_id" element, and the other top-level fields follow in their
\* original order; if it has none the output is that of move_id=false.
MoveIdFirst ==
    (Returned /\ move_id) =>
        IF HasId(given)
        THEN /\ Names(SelectSeq(out.keys, IsTop))
                  = <<ID_NAME>> \o KeyNames(SelectSeq(given.pairs, IsOtherPair))
             /\ IdValue(given).t = "int" =>
                  SubSeq(out.result, 5, 13)
                    = <<16>> \o ID_NAME \o <<0>>
                        \o Take(NUM2LL(Big(IdValue(given).neg,
                                           IdValue(given).mag)), 4)
        ELSE Unmoved.status = "ok" /\ out.result = Unmoved.result

\* The names of the elements written for a value, below its own key, and
\* for the pairs of a document, in the order of the input.
RECURSIVE NamesBelow(_)
RECURSIVE NamesOfPairs(_, _)
RECURSIVE NamesOfItems(_, _)
NamesOfPairs(pairs, i) ==
    IF i > Len(pairs) THEN <<>>
    ELSE <<KeyString(pairs[i].k).s>> \o NamesBelow(pairs[i].v)
           \o NamesOfPairs(pairs, i + 1)
NamesOfItems(items, i) ==
    IF i > Len(items) THEN <<>>
    ELSE <<INT2STRING(i - 1)>> \o NamesBelow(items[i])
           \o NamesOfItems(items, i + 1)
NamesBelow(v) ==
    CASE v.t = "hash" -> NamesOfPairs(v.pairs, 1)
      [] v.t = "array" -> NamesOfItems(v.items, 1)
      [] v.t = "code" -> NamesOfPairs(v.scope.pairs, 1)
      [] v.t = "dbref" -> <<REF_NAME>> \o NamesBelow(v.ns)
                            \o <<DOLLAR_ID_NAME>> \o NamesBelow(v.oid)
      [] OTHER -> <<>>

RECURSIVE NestedNames(_, _)
NestedNames(pairs, i) ==
    IF i > Len(pairs) THEN <<>>
    ELSE NamesBelow(pairs[i].v) \o NestedNames(pairs, i + 1)

\* C8: Order preservation.  With move_id=false the elements written are the
\* pairs of the input, one element a pair, in the order of the input, at the
\* top level and in every nested document; with move_id=true that holds of
\* every nested document.  A nested "_id" is neither moved nor skipped, and
\* no pair is dropped when a hash holds "_id" as a string and as a symbol.
OrderPreserved ==
    /\ (Returned /\ ~move_id) => Names(out.keys) = NamesOfPairs(given.pairs, 1)
    /\ (Returned /\ move_id) =>
          Names(SelectSeq(out.keys, IsNested))
            = NestedNames(SelectSeq(given.pairs, IsIdPair)
                            \o SelectSeq(given.pairs, IsOtherPair), 1)

RECURSIVE HasNulName(_)
HasNulName(v) ==
    CASE v.t = "hash" ->
           \E i \in 1..Len(v.pairs) :
               0 \in Range(v.pairs[i].k.s) \/ HasNulName(v.pairs[i].v)
      [] v.t = "array" -> \E i \in 1..Len(v.items) : HasNulName(v.items[i])
      [] v.t = "code" -> HasNulName(v.scope)
      [] v.t = "dbref" -> HasNulName(v.ns) \/ HasNulName(v.oid)
      [] v.t = "regex" -> 0 \in Range(v.pattern)
      [] OTHER -> FALSE

\* The document with the NUL bytes taken out of its keys and patterns.
NoNul(b) == b # 0
RECURSIVE StripNuls(_)
StripNuls(v) ==
    CASE v.t = "hash" ->
           [v EXCEPT !.pairs = [i \in 1..Len(@) |->
               P([@[i].k EXCEPT !.s = SelectSeq(@, NoNul)], StripNuls(@[i].v))]]
      [] v.t = "array" ->
           [v EXCEPT !.items = [i \in 1..Len(@) |-> StripNuls(@[i])]]
      [] v.t = "code" -> [v EXCEPT !.scope = StripNuls(@)]
      [] v.t = "dbref" -> [v EXCEPT !.ns = StripNuls(@), !.oid = StripNuls(@)]
      [] v.t = "regex" -> [v EXCEPT !.pattern = SelectSeq(@, NoNul)]
      [] OTHER -> v

\* The call would return bytes but for the NUL bytes of the names.
OnlyNulsWrong ==
    method_serialize(StripNuls(given), check_keys, move_id, 0, 1).status = "ok"

\* C10: NUL in names.  A document in which some key, at any depth, or some
\* regex pattern holds a 0x00 byte is refused: serialize returns no bytes,
\* and fails with InvalidDocument when nothing else is wrong with the
\* document, for every combination of check_keys and move_id.
NulRejected ==
    (Done /\ NoFailure /\ HasNulName(given)) =>
        /\ out.status # "ok"
        /\ out.result = <<>>
        /\ OnlyNulsWrong => out.status = "InvalidDocument"

\* deserialize was called with a byte string from elsewhere and is over.
Decoded == pc = "decoded"

\* The input is malformed in one of the ways C11 lists.
MalformedInput ==
    \/ Len(wire) < 5
    \/ wire[Len(wire)] # 0
    \/ \E i \in 1..Len(MalformedCat) : wire = MalformedCat[i]

\* C11: Malformed input.  deserialize fails with a DecodeError, without a
\* read outside the input, whenever the input is shorter than 5 bytes, does
\* not end with 0x00, has a key without its NUL, has an element whose
\* declared length runs past its enclosing document, or has a binary of
\* subtype 2 whose inner length is not the outer length minus 4.
MalformedRejected ==
    (Decoded /\ MalformedInput) => dec.st = "DecodeError"

\* Bytes [9..12) of the i-th id the process generated.
CounterField(i) == SubSeq(ids[i].oid, 10, 12)

\* C12 as stated: bytes [9..12) of every id are the low 24 bits of the
\* value get_inc returned, most significant byte first, and any two ids of
\* one process and one second differ in them, however many were generated.
OidCounterDistinct ==
    /\ \A i \in 1..Len(ids) :
         CounterField(i) = Reverse(HostBytes(ids[i].inc % COUNTER_MOD, 3))
    /\ \A i, j \in 1..Len(ids) :
         (i # j /\ ids[i].t = ids[j].t) => CounterField(i) # CounterField(j)

\* C12, amended: bytes [9..12) of every id are the low 24 bits of the value
\* get_inc returned, most significant byte first; two ids differ in them
\* exactly when the two values differ modulo 2^24.
OidCounter ==
    /\ \A i \in 1..Len(ids) :
         CounterField(i) = Reverse(HostBytes(ids[i].inc % COUNTER_MOD, 3))
    /\ \A i, j \in 1..Len(ids) :
         (CounterField(i) = CounterField(j))
           <=> ((ids[i].inc - ids[j].inc) % COUNTER_MOD = 0)

\* A state in which C12's case happens: two ids of one second, the later
\* from a greater value of the counter, with the same bytes [9..12).
OidCounterWitness ==
    \E i, j \in 1..Len(ids) :
        /\ i < j
        /\ ids[i].t = ids[j].t
        /\ ids[i].inc < ids[j].inc
        /\ CounterField(i) = CounterField(j)

\* serialize({"a" => 1}, check_keys=false, move_id=false) was called and no
\* allocation failed.
ScenarioOne ==
    /\ Done /\ NoFailure /\ ~check_keys /\ ~move_id
    /\ Len(given.pairs) = 1
    /\ given.pairs[1] = P(KA, SmallInt(1))

\* C13 as stated: serialize({"a": 1}, false, false) returns the bytes
\* 0E 00 00 00 10 61 00 01 00 00 00 00, whose length prefix reads 14.
ScenarioOneFourteen ==
    ScenarioOne =>
        /\ out.status = "ok"
        /\ out.result = <<14, 0, 0, 0, 16, 97, 0, 1, 0, 0, 0, 0>>

\* C13, amended: serialize({"a": 1}, false, false) returns the 12 bytes
\* 0C 00 00 00 10 61 00 01 00 00 00 00: the length prefix reads 12, then the
\* Int32 tag, the key "a" and its NUL, the value 1 and the terminator.
ScenarioOneBytes ==
    ScenarioOne =>
        /\ out.status = "ok"
        /\ out.result = <<12, 0, 0, 0, 16, 97, 0, 1, 0, 0, 0, 0>>

\* A state in which C13's case happens: the call of scenario 1 returned.
ScenarioOneWitness == ScenarioOne /\ out.status = "ok" /\ Len(out.result) = 12

\* C14: Purity of serialize.  A call of serialize, whether it returns or
\* raises and whatever check_keys and move_id are, leaves the caller's
\* document, and every document nested in it, as it was: the same keys, the
\* same values, the same order.
InputUnchanged == Done => doc = given

\* The input is {"a" => /ab/} with some flag string, and has been decoded.
RegexInput == Decoded /\ \E k \in 1..Len(RegexCat) : wire = RegexCat[k]
\* The flag string of such an input.
WireFlags == SubSeq(wire, 11, Len(wire) - 2)
IsExtraFlag(f) == f \notin {CH_I, CH_M, CH_X}

\* C15: Regex decoding.  The decoded regex has the engine flags of exactly
\* the letters among i, m, x in the flag string; every other letter, in the
\* order of the wire and however many there are, is in its extra options;
\* the cursor ends just past the NUL of the flag string.
RegexDecoding ==
    RegexInput =>
        /\ dec.st = "ok"
        /\ Len(dec.value.pairs) = 1
        /\ dec.value.pairs[1].k = KA
        /\ dec.value.pairs[1].v.t = "regex"
        /\ dec.value.pairs[1].v.pattern = <<97, 98>>
        /\ dec.value.pairs[1].v.i = (CH_I \in Range(WireFlags))
        /\ dec.value.pairs[1].v.m = (CH_M \in Range(WireFlags))
        /\ dec.value.pairs[1].v.x = (CH_X \in Range(WireFlags))
        /\ dec.value.pairs[1].v.extra = SelectSeq(WireFlags, IsExtraFlag)
        /\ dec.pos = Len(wire) - 5

\* The input is {"a" => e, "z" => nil}, e an embedded document, and has
\* been decoded.
RefInput == Decoded /\ \E k \in 1..Len(RefCat) : wire = RefCat[k]
\* The fields of e, read as those of a plain document.
EmbPairs == elements_to_hash(wire, 11, IntAt(wire, 7) - 5).value.pairs
FirstKeyIsRef == Len(EmbPairs) >= 1 /\ EmbPairs[1].k = StrKey(REF_NAME)
\* e is {"$ref" => a string, "$id" => a value, ...}.
ShapeOfDBRef ==
    /\ FirstKeyIsRef
    /\ EmbPairs[1].v.t = "str"
    /\ Len(EmbPairs) >= 2
    /\ EmbPairs[2].k = StrKey(DOLLAR_ID_NAME)
\* The decoding went on at the end of e: "z" => nil follows, and the end.
CursorPastEmb ==
    /\ dec.st = "ok"
    /\ Len(dec.value.pairs) = 2
    /\ dec.value.pairs[1].k = KA
    /\ dec.value.pairs[2] = P(StrKey(<<122>>), [t |-> "nil"])
    /\ dec.pos = Len(wire) - 5

\* C16: DBRef detection on decode.  An element of tag 0x03 is decoded to a
\* DBRef iff the first key of its document is exactly "$ref", the DBRef
\* then made of the string of "$ref" and the value of "$id"; a document
\* whose first key is "$ref" but whose first field is no string, or whose
\* second key is not "$id", is not read as if it had that shape; in both
\* cases the cursor moves on by the declared size of the document.
DBRefDetection ==
    RefInput =>
        /\ ShapeOfDBRef =>
             /\ CursorPastEmb
             /\ dec.value.pairs[1].v
                  = [t |-> "dbref", ns |-> EmbPairs[1].v, oid |-> EmbPairs[2].v]
        /\ ~FirstKeyIsRef =>
             /\ CursorPastEmb
             /\ dec.value.pairs[1].v = OrderedHash(EmbPairs)
        /\ (FirstKeyIsRef /\ ~ShapeOfDBRef) =>
             ~(dec.st = "ok" /\ dec.value.pairs[1].v.t = "dbref")

\* C17: Single release.  Along every call of serialize the buffer is freed
\* at most once and is not written, patched or read once it is freed: a
\* branch that frees it raises at once, and the call that returns has read
\* the result out of the buffer before its one buffer_free.
SingleRelease ==
    Done =>
        /\ out.freed <= 1
        /\ ~out.afterFree
        /\ out.status = "ok" =>
             (out.freed = 1 /\ ItemsLen(out.result) >= 5)
        /\ out.status \notin {"ok", "NoMemError", "RuntimeError"} =>
             out.freed = 1

\* A state in which C17's case happens: a call that had written to the
\* buffer freed it on an error branch and raised.
SingleReleaseWitness ==
    /\ Done
    /\ out.status \in {"InvalidName", "InvalidDocument", "RangeError", "TypeError"}
    /\ out.ops > 1
    /\ out.freed = 1

=============================================================================
